---- MODULE Spec2Model ----
(***************************************************************************)
(* Model of services/cosmosService.js (class CosmosService): the           *)
(* availability gate, the message repository, the conversation metadata    *)
(* repository and the retention manager, over one Cosmos DB container.     *)
(*                                                                         *)
(* The container is a set of documents, unique by (id, partitionKey).      *)
(* Every await of the source is a point where other calls interleave, so   *)
(* an operation with a store call in flight is a record in `calls`.        *)
(* Time is the millisecond clock read by DateTime.now() / Date.now(); it   *)
(* never runs backwards and may stand still between two reads.             *)
(***************************************************************************)
EXTENDS Integers, Sequences, FiniteSets, Bags, TLC

VARIABLES
    cosmosAvailable,      \* this.cosmosAvailable
    initialized,          \* this.initialized
    initializationError,  \* this.initializationError
    probe,                \* testConnection(): "none" | "pending" | "ok" | "failed"
    container,            \* documents stored in the Cosmos container
    now,                  \* the clock
    calls,                \* bag of the operations waiting for a store call
    immediate,            \* per pair, the setImmediate callbacks of saveMessage queued
    ret,                  \* what the step just taken returned to its caller
    lastSaved,            \* the last document saveMessage returned, with its input
    ops,                  \* number of operations invoked so far
    invoked,              \* per pair, the runs of updateConversationActivity begun
    deleted               \* per pair, how far deleteConversation has got: "no",
                          \* "running", "done" (no delete failed) or "failed"

vars == <<cosmosAvailable, initialized, initializationError, probe,
          container, now, calls, immediate, ret, lastSaved, ops, invoked,
          deleted>>

----------------------------------------------------------------------------
(* Bounds of the model *)

MaxTime == 2

MaxCalls == 2

MaxOps == 3

MaxCount == 3

MaxLimit == 2

MaxKeep == 1

MaxAppends == 2

MaxStored == 3

(* Program constants *)

MaxMessageLength == 4000

Ttl == 7776000

----------------------------------------------------------------------------
(* Values *)

Null == "null"

Undefined == "undefined"

NoTime == -1

Conversations == {"c1", "c2"}

Users == {"u1"}

\* arguments a caller may pass; "" is the empty / missing argument
ConversationArgs == Conversations \cup {""}

UserArgs == Users \cup {""}

Pairs == Conversations \X Users

UserNames == {Null, "Ana"}

MessageTypes == {"user", "bot"}

\* A text is its content tag and its length in UTF-16 units; a prefix of a
\* text keeps the tag, so two texts are equal iff tag and length are equal.
Text(body, len) == [body |-> body, len |-> len]

NoText == Text("", 0)

\* Math.random().toString(36).substr(2, 9): the random suffix of a message id
Suffixes == {"k3x", "9qz"}

\* additionalData of saveConversationInfo, an object of the caller: {} the
\* default, an object with a field of its own, an object with an id
NoFields == [f \in {} |-> Undefined]

AdditionalDatas ==
    { NoFields,
      [extra |-> "vip"],
      [id |-> [prefix |-> "custom_", ms |-> NoTime, tail |-> "x"]] }

Limits == 1..MaxLimit

KeepLasts == 0..MaxKeep

----------------------------------------------------------------------------
(* Documents *)

\* a message stored whole
Whole(message, n) == message

\* message.substring(0, 4000)
Substring(message, n) ==
    Text(message.body, IF message.len <= n THEN message.len ELSE n)

\* generateMessageId(): `msg_${Date.now()}_${random}`
GenerateMessageId(ms, suffix) == [prefix |-> "msg_", ms |-> ms, tail |-> suffix]

\* `conversation_${conversationId}`
ConversationDocId(conversationId) ==
    [prefix |-> "conversation_", ms |-> NoTime, tail |-> conversationId]

NoId == [prefix |-> Undefined, ms |-> NoTime, tail |-> Undefined]

\* messageDoc of saveMessage; the metadata fields are absent from it
MessageDoc(messageId, message, conversationId, userId, userName, messageType, timestamp) ==
    [ id             |-> messageId,
      messageId      |-> messageId,
      conversationId |-> conversationId,
      userId         |-> userId,
      userName       |-> userName,
      message        |-> Substring(message, MaxMessageLength),
      messageType    |-> messageType,
      timestamp      |-> timestamp,
      dateCreated    |-> timestamp,
      partitionKey   |-> userId,
      ttl            |-> Ttl,
      documentType   |-> Undefined,
      createdAt      |-> NoTime,
      lastActivity   |-> NoTime,
      messageCount   |-> NoTime,
      isActive       |-> FALSE,
      extra          |-> Undefined ]

\* the fields a metadata document does not carry
MetadataDoc(conversationId, userId, userName, createdAt, lastActivity, messageCount, extra) ==
    [ id             |-> ConversationDocId(conversationId),
      messageId      |-> NoId,
      conversationId |-> conversationId,
      userId         |-> userId,
      userName       |-> userName,
      message        |-> NoText,
      messageType    |-> Undefined,
      timestamp      |-> NoTime,
      dateCreated    |-> NoTime,
      partitionKey   |-> userId,
      ttl            |-> Ttl,
      documentType   |-> "conversation_info",
      createdAt      |-> createdAt,
      lastActivity   |-> lastActivity,
      messageCount   |-> messageCount,
      isActive       |-> TRUE,
      extra          |-> extra ]

\* { ...fields, ...additionalData }: a field of additionalData replaces the
\* field of that name written before it
Spread(additionalData, field, value) ==
    IF field \in DOMAIN additionalData THEN additionalData[field] ELSE value

\* conversationDoc of saveConversationInfo: userName || 'Usuario', createdAt and
\* lastActivity = now, messageCount 0, then ...additionalData
ConversationDoc(conversationId, userId, userName, timestamp, additionalData) ==
    LET doc == MetadataDoc(conversationId, userId,
                           IF userName = Null \/ userName = "" THEN "Usuario" ELSE userName,
                           timestamp, timestamp, 0, Undefined)
    IN  [doc EXCEPT
            !.id             = Spread(additionalData, "id", @),
            !.messageId      = Spread(additionalData, "messageId", @),
            !.conversationId = Spread(additionalData, "conversationId", @),
            !.userId         = Spread(additionalData, "userId", @),
            !.userName       = Spread(additionalData, "userName", @),
            !.message        = Spread(additionalData, "message", @),
            !.messageType    = Spread(additionalData, "messageType", @),
            !.timestamp      = Spread(additionalData, "timestamp", @),
            !.dateCreated    = Spread(additionalData, "dateCreated", @),
            !.partitionKey   = Spread(additionalData, "partitionKey", @),
            !.ttl            = Spread(additionalData, "ttl", @),
            !.documentType   = Spread(additionalData, "documentType", @),
            !.createdAt      = Spread(additionalData, "createdAt", @),
            !.lastActivity   = Spread(additionalData, "lastActivity", @),
            !.messageCount   = Spread(additionalData, "messageCount", @),
            !.isActive       = Spread(additionalData, "isActive", @),
            !.extra          = Spread(additionalData, "extra", @)]

\* an update that counts every call twice
UpdatedDocCountingTwice(existingDoc, conversationId, userId, timestamp) ==
    IF existingDoc = {}
    THEN MetadataDoc(conversationId, userId, "Usuario", timestamp, timestamp, 2, Undefined)
    ELSE LET e == CHOOSE d \in existingDoc : TRUE
         IN  [e EXCEPT !.lastActivity = timestamp,
                       !.messageCount = e.messageCount + 2,
                       !.isActive = TRUE]

\* an update that rebuilds the document instead of merging the one it read
UpdatedDocRebuilt(existingDoc, conversationId, userId, timestamp) ==
    MetadataDoc(conversationId, userId, "Usuario", timestamp, timestamp,
                (IF existingDoc = {} THEN 0
                 ELSE (CHOOSE d \in existingDoc : TRUE).messageCount) + 1,
                Undefined)

\* updatedDoc of updateConversationActivity. existingDoc is the set holding the
\* document read, or {} for null. The spread ...(existingDoc || {}) carries every
\* field of the document read over the fresh ones; lastActivity, messageCount and
\* isActive are then overwritten.
UpdatedDoc(existingDoc, conversationId, userId, timestamp) ==
    IF existingDoc = {}
    THEN MetadataDoc(conversationId, userId, "Usuario", timestamp, timestamp, 0 + 1, Undefined)
    ELSE LET e == CHOOSE d \in existingDoc : TRUE
         IN  [e EXCEPT !.lastActivity = timestamp,
                       !.messageCount = e.messageCount + 1,
                       !.isActive = TRUE]

----------------------------------------------------------------------------
(* The document store *)

\* container.item(id, partitionKey).read(): {} stands for the 404 outcome
ReadItem(id, partitionKey) ==
    {d \in container : d.id = id /\ d.partitionKey = partitionKey}

\* container.items.create(doc) succeeds only when (id, partitionKey) is free
CanCreate(doc) == ReadItem(doc.id, doc.partitionKey) = {}

\* container.items.upsert(doc): replace or insert by (id, partitionKey)
Upsert(doc) == (container \ ReadItem(doc.id, doc.partitionKey)) \cup {doc}

----------------------------------------------------------------------------
(* Queries *)

\* A Cosmos DB SQL property reference is undefined when the document lacks it;
\* `c.messageType IS DEFINED` is read as that test, the store accepting the query
Defined(v) == v # Undefined

\* Cosmos DB SQL `a != b`: a comparison with an undefined operand evaluates to
\* undefined, and WHERE keeps only the documents whose filter evaluates to true
CosmosNotEqual(a, b) == Defined(a) /\ Defined(b) /\ a # b

\* a history query that leaves out the conversationId filter
PartitionMatches(conversationId, userId) ==
    {d \in container : /\ d.partitionKey = userId
                       /\ d.userId = userId
                       /\ Defined(d.messageType)
                       /\ d.timestamp # NoTime}

\* WHERE clause of getConversationHistory, scoped to the partition userId.
\* ORDER BY c.timestamp leaves out the documents without a timestamp.
HistoryMatches(conversationId, userId) ==
    {d \in container : /\ d.partitionKey = userId
                       /\ d.conversationId = conversationId
                       /\ d.userId = userId
                       /\ Defined(d.messageType)
                       /\ d.timestamp # NoTime}

\* a cleanup query that leaves out the conversationId and documentType filters
PartitionDocuments(conversationId, userId) ==
    {d \in container : /\ d.partitionKey = userId
                       /\ d.userId = userId
                       /\ d.timestamp # NoTime}

\* a cleanup query that returns every document of the pair, the metadata
\* document among them
PairDocuments(conversationId, userId) ==
    {d \in container : /\ d.partitionKey = userId
                       /\ d.conversationId = conversationId
                       /\ d.userId = userId}

\* WHERE clause of cleanOldMessages: c.documentType != 'conversation_info'
CleanMatches(conversationId, userId) ==
    {d \in container : /\ d.partitionKey = userId
                       /\ d.conversationId = conversationId
                       /\ d.userId = userId
                       /\ CosmosNotEqual(d.documentType, "conversation_info")
                       /\ d.timestamp # NoTime}

\* WHERE clause of deleteConversation
DeleteMatches(conversationId, userId) ==
    {d \in container : /\ d.partitionKey = userId
                       /\ d.conversationId = conversationId
                       /\ d.userId = userId}

\* every order in which the store may return the documents of S
Orders(S) ==
    {s \in [1..Cardinality(S) -> S] : \A i, j \in 1..Cardinality(S) : i # j => s[i] # s[j]}

\* ORDER BY c.timestamp DESC: equal timestamps come in an order the store chooses.
\* A timestamp is the millisecond of DateTime.now(): the ISO strings the code
\* stores carry one zone offset, so their order is the order of the instants.
OrderByTimestampDesc(S) ==
    {s \in Orders(S) : \A i, j \in 1..Cardinality(S) : i < j => s[i].timestamp >= s[j].timestamp}

\* SELECT TOP n
Top(n, s) == SubSeq(s, 1, IF Len(s) <= n THEN Len(s) ELSE n)

\* messages.slice(keepLast)
Slice(s, keepLast) == SubSeq(s, keepLast + 1, Len(s))

\* one step of the stable sort: x goes after every element not later than it
InsertByTimestamp(sorted, x) ==
    LET later == {i \in 1..Len(sorted) : sorted[i].timestamp > x.timestamp}
        at == IF later = {} THEN Len(sorted) + 1
              ELSE CHOOSE i \in later : \A j \in later : i <= j
    IN  SubSeq(sorted, 1, at - 1) \o <<x>> \o SubSeq(sorted, at, Len(sorted))

RECURSIVE SortFrom(_, _)
SortFrom(sorted, rest) ==
    IF rest = <<>> THEN sorted
    ELSE SortFrom(InsertByTimestamp(sorted, Head(rest)), Tail(rest))

\* the messages left in the order the store returned them
AsReturned(messages) == messages

\* messages.sort((a, b) => new Date(a.timestamp) - new Date(b.timestamp))
SortByTimestamp(messages) == SortFrom(<<>>, messages)

\* the .map(msg => ({...})) of getConversationHistory
MapMessage(msg) ==
    [ id             |-> msg.messageId,
      message        |-> msg.message,
      conversationId |-> msg.conversationId,
      userId         |-> msg.userId,
      userName       |-> msg.userName,
      timestamp      |-> msg.timestamp,
      type           |-> msg.messageType ]

\* sortedMessages of getConversationHistory, from what the query returned
SortedMessages(messages) ==
    LET sorted == SortByTimestamp(messages)
    IN  [i \in 1..Len(sorted) |-> MapMessage(sorted[i])]

----------------------------------------------------------------------------
(* Calls in flight and return values *)

\* an operation waiting for the store call it awaits
Call ==
    [ op |-> "", pc |-> "", conversationId |-> "", userId |-> "",
      timestamp |-> NoTime, doc |-> {}, input |-> NoText,
      todo |-> <<>>, deletedCount |-> 0, found |-> 0, keepLast |-> 0,
      error |-> "none" ]

\* the value a call hands to its caller: `value` holds the document(s) returned
\* (<<>> for null or []), `flag` a boolean result, `count` a numeric result;
\* `error` names the last store error the call absorbed, `arg` is the limit or
\* keepLast argument. `before` is what the call found: the number of message
\* documents the pair held when a history or cleanup call queried the store,
\* the number of documents (0 or 1) the point read of an activity update gave.
Return(op, conversationId, userId, value, flag, count, error, arg, before) ==
    [ op |-> op, conversationId |-> conversationId, userId |-> userId,
      value |-> value, flag |-> flag, count |-> count, error |-> error,
      arg |-> arg, before |-> before ]

NoRet == Return("none", "", "", <<>>, FALSE, 0, "none", 0, 0)

\* a test that lets the empty string through
IsNull(x) == x = Null

\* JavaScript !x for a string argument (conversationId, userId)
Falsy(x) == x = "" \/ x = Null

\* JavaScript !message: the empty text
FalsyText(message) == message.len = 0

\* the calls in flight
InFlight == BagToSet(calls)

\* room for one more call in flight, and for one more operation
CanCall == BagCardinality(calls) < MaxCalls /\ ops < MaxOps

\* a call starts waiting, stops waiting, or goes on to its next store call
Started(c) == calls (+) SetToBag({c})

Finished(c) == calls (-) SetToBag({c})

Continued(c, d) == (calls (-) SetToBag({c})) (+) SetToBag({d})

\* the message documents of a pair (the documents carrying a messageType)
PairMessages(conversationId, userId) ==
    {d \in container : /\ d.conversationId = conversationId
                       /\ d.userId = userId
                       /\ Defined(d.messageType)}

\* the metadata document(s) of a pair
PairMetadata(conversationId, userId) ==
    {d \in container : /\ d.conversationId = conversationId
                       /\ d.userId = userId
                       /\ d.documentType = "conversation_info"}

\* the calls in flight after a step that were not in flight before it: a call
\* that began to wait, or went on to its next store call
StartedCalls == BagToSet(calls') \ BagToSet(calls)

gate == <<cosmosAvailable, initialized, initializationError, probe>>

history == <<lastSaved, invoked, deleted>>

----------------------------------------------------------------------------
(* Construction *)

\* constructor + initializeCosmosClient(): configuration missing, new
\* CosmosClient throwing, or configured with the connectivity test started
Init ==
    /\ \E config \in {"missing", "throws", "present"} :
          /\ cosmosAvailable = (config = "present")
          /\ initialized = (config = "present")
          /\ initializationError =
                CASE config = "missing" -> "Variables de entorno de Cosmos DB faltantes"
                  [] config = "throws"  -> "Error inicializando Cosmos DB"
                  [] OTHER              -> Null
          /\ probe = IF config = "present" THEN "pending" ELSE "none"
    /\ container = {}
    /\ now = 0
    /\ calls = EmptyBag
    /\ immediate = [p \in Pairs |-> 0]
    /\ ret = NoRet
    /\ lastSaved = {}
    /\ ops = 0
    /\ invoked = [p \in Pairs |-> 0]
    /\ deleted = [p \in Pairs |-> "no"]

\* a probe whose failure closes the gate without recording the reason
TestConnectionSilent ==
    /\ probe = "pending"
    /\ \/ /\ probe' = "ok"
          /\ UNCHANGED <<cosmosAvailable, initializationError>>
       \/ /\ probe' = "failed"
          /\ cosmosAvailable' = FALSE
          /\ UNCHANGED initializationError
    /\ ret' = NoRet
    /\ UNCHANGED <<initialized, container, now, calls, immediate, history, ops>>

\* a probe whose failure records the reason and leaves the gate open
TestConnectionKeepsOpen ==
    /\ probe = "pending"
    /\ \/ /\ probe' = "ok"
          /\ UNCHANGED <<cosmosAvailable, initializationError>>
       \/ /\ probe' = "failed"
          /\ initializationError' = "Error de conectividad"
          /\ UNCHANGED cosmosAvailable
    /\ ret' = NoRet
    /\ UNCHANGED <<initialized, container, now, calls, immediate, history, ops>>

\* testConnection() resolves
TestConnection ==
    /\ probe = "pending"
    /\ \/ /\ probe' = "ok"
          /\ UNCHANGED <<cosmosAvailable, initializationError>>
       \/ /\ probe' = "failed"
          /\ cosmosAvailable' = FALSE
          /\ initializationError' = "Error de conectividad"
    /\ ret' = NoRet
    /\ UNCHANGED <<initialized, container, now, calls, immediate, history, ops>>

\* isAvailable()
IsAvailable == cosmosAvailable /\ initialized

\* getConfigInfo(): available, initialized and error
GetConfigInfo ==
    [ available   |-> cosmosAvailable,
      initialized |-> initialized,
      error       |-> initializationError ]

\* a millisecond passes
Tick ==
    /\ now < MaxTime
    /\ now' = now + 1
    /\ ret' = NoRet
    /\ UNCHANGED <<gate, container, calls, immediate, history, ops>>

----------------------------------------------------------------------------
(* Message repository *)

\* saveMessage up to its await: the gate, the validation, the document built
\* from the clock and a fresh id, and container.items.create(messageDoc) issued
SaveMessage(message, conversationId, userId, userName, messageType, suffix) ==
    /\ CanCall
    /\ ops' = ops + 1
    /\ \/ /\ ~cosmosAvailable
          /\ ret' = Return("saveMessage", conversationId, userId, <<>>, FALSE, 0, "gate", 0, 0)
          /\ UNCHANGED calls
       \/ /\ cosmosAvailable
          /\ FalsyText(message) \/ Falsy(conversationId) \/ Falsy(userId)
          /\ ret' = Return("saveMessage", conversationId, userId, <<>>, FALSE, 0, "validation", 0, 0)
          /\ UNCHANGED calls
       \/ /\ cosmosAvailable
          /\ ~(FalsyText(message) \/ Falsy(conversationId) \/ Falsy(userId))
          /\ calls' = Started(
                [Call EXCEPT !.op = "saveMessage", !.pc = "create",
                             !.conversationId = conversationId, !.userId = userId,
                             !.timestamp = now, !.input = message,
                             !.doc = {MessageDoc(GenerateMessageId(now, suffix), message,
                                                 conversationId, userId, userName,
                                                 messageType, now)}])
          /\ ret' = NoRet
    /\ UNCHANGED <<gate, container, now, immediate, history>>

\* a saveMessage that returns the created item without queueing the refresh
CreateDoneOnly(c, outcome) ==
    /\ c.pc = "create"
    /\ LET messageDoc == CHOOSE d \in c.doc : TRUE
       IN  IF outcome = "ok" /\ CanCreate(messageDoc)
           THEN /\ container' = container \cup {messageDoc}
                /\ ret' = Return("saveMessage", c.conversationId, c.userId, <<messageDoc>>,
                                 FALSE, 0, "none", 0, 0)
                /\ lastSaved' = {[doc |-> messageDoc, input |-> c.input]}
                /\ UNCHANGED immediate
           ELSE /\ ret' = Return("saveMessage", c.conversationId, c.userId, <<>>, FALSE, 0,
                                 IF outcome = "ok" THEN "conflict" ELSE "create", 0, 0)
                /\ UNCHANGED <<container, immediate, lastSaved>>
    /\ calls' = Finished(c)
    /\ UNCHANGED <<gate, now, ops, invoked, deleted>>

\* container.items.create resolves, or throws: 409 when the id is taken in the
\* partition, or another error. On success the metadata refresh is handed to
\* setImmediate and createdItem is returned; on a throw null is returned.
CreateDone(c, outcome) ==
    /\ c.pc = "create"
    /\ LET messageDoc == CHOOSE d \in c.doc : TRUE
       IN  IF outcome = "ok" /\ CanCreate(messageDoc)
           THEN /\ container' = container \cup {messageDoc}
                /\ immediate' = [immediate EXCEPT ![<<c.conversationId, c.userId>>] = @ + 1]
                /\ ret' = Return("saveMessage", c.conversationId, c.userId, <<messageDoc>>,
                                 FALSE, 0, "none", 0, 0)
                /\ lastSaved' = {[doc |-> messageDoc, input |-> c.input]}
           ELSE /\ ret' = Return("saveMessage", c.conversationId, c.userId, <<>>, FALSE, 0,
                                 IF outcome = "ok" THEN "conflict" ELSE "create", 0, 0)
                /\ UNCHANGED <<container, immediate, lastSaved>>
    /\ calls' = Finished(c)
    /\ UNCHANGED <<gate, now, ops, invoked, deleted>>

\* getConversationHistory: one query, then the client-side sort and map
GetConversationHistory(conversationId, userId, limit, outcome) ==
    /\ \/ /\ ~cosmosAvailable
          /\ ret' = Return("getConversationHistory", conversationId, userId, <<>>,
                           FALSE, 0, "gate", limit, 0)
       \/ /\ cosmosAvailable
          /\ outcome = "ok"
          /\ \E ordered \in OrderByTimestampDesc(HistoryMatches(conversationId, userId)) :
                ret' = Return("getConversationHistory", conversationId, userId,
                              SortedMessages(Top(limit, ordered)), FALSE, 0, "none", limit,
                              Cardinality(PairMessages(conversationId, userId)))
       \/ /\ cosmosAvailable
          /\ outcome # "ok"
          /\ ret' = Return("getConversationHistory", conversationId, userId, <<>>,
                           FALSE, 0, "query", limit, 0)
    /\ UNCHANGED <<gate, container, now, calls, immediate, history, ops>>

----------------------------------------------------------------------------
(* Conversation metadata repository *)

\* saveConversationInfo up to its await: container.items.upsert issued
SaveConversationInfo(conversationId, userId, userName, additionalData) ==
    /\ CanCall
    /\ ops' = ops + 1
    /\ \/ /\ ~cosmosAvailable
          /\ ret' = Return("saveConversationInfo", conversationId, userId, <<>>,
                           FALSE, 0, "gate", 0, 0)
          /\ UNCHANGED calls
       \/ /\ cosmosAvailable
          /\ Falsy(conversationId) \/ Falsy(userId)
          /\ ret' = Return("saveConversationInfo", conversationId, userId, <<>>,
                           FALSE, 0, "validation", 0, 0)
          /\ UNCHANGED calls
       \/ /\ cosmosAvailable
          /\ ~(Falsy(conversationId) \/ Falsy(userId))
          /\ calls' = Started(
                [Call EXCEPT !.op = "saveConversationInfo", !.pc = "upsert",
                             !.conversationId = conversationId, !.userId = userId,
                             !.timestamp = now,
                             !.doc = {ConversationDoc(conversationId, userId, userName,
                                                      now, additionalData)}])
          /\ ret' = NoRet
    /\ UNCHANGED <<gate, container, now, immediate, history>>

\* a store whose upsert is an insert: it rejects an id already stored
InsertOnly(doc) == CanCreate(doc)

\* container.items.upsert(doc) is accepted whether or not the id is stored
UpsertAccepted(doc) == TRUE

\* the upsert of saveConversationInfo resolves or throws
SaveConversationInfoDone(c, outcome) ==
    /\ c.op = "saveConversationInfo"
    /\ c.pc = "upsert"
    /\ LET conversationDoc == CHOOSE d \in c.doc : TRUE
       IN  IF outcome = "ok" /\ UpsertAccepted(conversationDoc)
           THEN /\ container' = Upsert(conversationDoc)
                /\ ret' = Return("saveConversationInfo", c.conversationId, c.userId,
                                 <<conversationDoc>>, FALSE, 0, "none", 0, 0)
           ELSE /\ ret' = Return("saveConversationInfo", c.conversationId, c.userId,
                                 <<>>, FALSE, 0,
                                 IF outcome = "ok" THEN "conflict" ELSE "upsert", 0, 0)
                /\ UNCHANGED container
    /\ calls' = Finished(c)
    /\ UNCHANGED <<gate, now, immediate, history, ops>>

\* a getConversationInfo that reads the store without looking at the gate
GetConversationInfoUngated(conversationId, userId, outcome) ==
    /\ LET found == IF outcome = "ok"
                    THEN ReadItem(ConversationDocId(conversationId), userId) ELSE {}
       IN  ret' = Return("getConversationInfo", conversationId, userId,
                         IF found = {} THEN <<>> ELSE <<CHOOSE d \in found : TRUE>>,
                         FALSE, 0,
                         IF outcome # "ok" THEN "read"
                         ELSE IF found = {} THEN "notfound" ELSE "none", 0, 0)
    /\ UNCHANGED <<gate, container, now, calls, immediate, history, ops>>

\* getConversationInfo: one point read; 404 and any other error give null
GetConversationInfo(conversationId, userId, outcome) ==
    /\ \/ /\ ~cosmosAvailable
          /\ ret' = Return("getConversationInfo", conversationId, userId, <<>>,
                           FALSE, 0, "gate", 0, 0)
       \/ /\ cosmosAvailable
          /\ outcome = "ok"
          /\ LET found == ReadItem(ConversationDocId(conversationId), userId)
             IN  ret' = Return("getConversationInfo", conversationId, userId,
                               IF found = {} THEN <<>> ELSE <<CHOOSE d \in found : TRUE>>,
                               FALSE, 0, IF found = {} THEN "notfound" ELSE "none", 0, 0)
       \/ /\ cosmosAvailable
          /\ outcome # "ok"
          /\ ret' = Return("getConversationInfo", conversationId, userId, <<>>,
                           FALSE, 0, "read", 0, 0)
    /\ UNCHANGED <<gate, container, now, calls, immediate, history, ops>>

\* updateConversationActivity up to its first await: the gate, the validation,
\* the timestamp, and the point read issued
BeginUpdate(conversationId, userId) ==
    \/ /\ ~cosmosAvailable
       /\ ret' = Return("updateConversationActivity", conversationId, userId, <<>>,
                        FALSE, 0, "gate", 0, 0)
       /\ UNCHANGED <<calls, invoked>>
    \/ /\ cosmosAvailable
       /\ Falsy(conversationId) \/ Falsy(userId)
       /\ ret' = Return("updateConversationActivity", conversationId, userId, <<>>,
                        FALSE, 0, "validation", 0, 0)
       /\ UNCHANGED <<calls, invoked>>
    \/ /\ cosmosAvailable
       /\ ~(Falsy(conversationId) \/ Falsy(userId))
       /\ calls' = Started(
             [Call EXCEPT !.op = "updateConversationActivity", !.pc = "read",
                          !.conversationId = conversationId, !.userId = userId,
                          !.timestamp = now])
       /\ ret' = NoRet
       /\ invoked' = [invoked EXCEPT ![<<conversationId, userId>>] = @ + 1]

\* a caller invokes updateConversationActivity
UpdateConversationActivity(conversationId, userId) ==
    /\ CanCall
    /\ ops' = ops + 1
    /\ BeginUpdate(conversationId, userId)
    /\ UNCHANGED <<gate, container, now, immediate, lastSaved, deleted>>

\* a setImmediate callback of saveMessage runs updateConversationActivity
SetImmediateRuns(conversationId, userId) ==
    /\ immediate[<<conversationId, userId>>] > 0
    /\ BagCardinality(calls) < MaxCalls
    /\ immediate' = [immediate EXCEPT ![<<conversationId, userId>>] = @ - 1]
    /\ BeginUpdate(conversationId, userId)
    /\ UNCHANGED <<gate, container, now, lastSaved, ops, deleted>>

\* a read that hands over the stored document even when it threw
StoredDoc(conversationId, userId, outcome) ==
    ReadItem(ConversationDocId(conversationId), userId)

\* existingDoc after the point read: the document, or null after a 404 or after
\* any other error (which is only logged)
ExistingDoc(conversationId, userId, outcome) ==
    IF outcome = "ok" THEN ReadItem(ConversationDocId(conversationId), userId) ELSE {}

\* the point read resolves or throws; either way updatedDoc is built and the
\* upsert issued
ReadDone(c, outcome) ==
    /\ c.pc = "read"
    /\ LET existingDoc == ExistingDoc(c.conversationId, c.userId, outcome)
       IN  /\ \A d \in existingDoc : d.messageCount < MaxCount
           /\ calls' = Continued(c,
                 [c EXCEPT !.pc = "upsert",
                           !.error = IF outcome = "ok" THEN "none" ELSE "read",
                           !.found = Cardinality(existingDoc),
                           !.doc = {UpdatedDoc(existingDoc, c.conversationId, c.userId,
                                               c.timestamp)}])
    /\ ret' = NoRet
    /\ UNCHANGED <<gate, container, now, immediate, history, ops>>

\* an update that reports success without looking at what the upsert did
UpsertDoneUnchecked(c, outcome) ==
    /\ c.op = "updateConversationActivity"
    /\ c.pc = "upsert"
    /\ LET updatedDoc == CHOOSE d \in c.doc : TRUE
       IN  /\ container' = IF outcome = "ok" THEN Upsert(updatedDoc) ELSE container
           /\ ret' = Return("updateConversationActivity", c.conversationId, c.userId,
                            <<updatedDoc>>, TRUE, 0,
                            IF outcome = "ok" THEN c.error ELSE "upsert", 0, c.found)
    /\ calls' = Finished(c)
    /\ UNCHANGED <<gate, now, immediate, history, ops>>

\* the upsert of updateConversationActivity resolves or throws
UpsertDone(c, outcome) ==
    /\ c.op = "updateConversationActivity"
    /\ c.pc = "upsert"
    /\ LET updatedDoc == CHOOSE d \in c.doc : TRUE
       IN  IF outcome = "ok" /\ UpsertAccepted(updatedDoc)
           THEN /\ container' = Upsert(updatedDoc)
                /\ ret' = Return("updateConversationActivity", c.conversationId, c.userId,
                                 <<updatedDoc>>, TRUE, 0, c.error, 0, c.found)
           ELSE /\ ret' = Return("updateConversationActivity", c.conversationId, c.userId,
                                 <<>>, FALSE, 0,
                                 IF outcome = "ok" THEN "conflict" ELSE "upsert", 0, 0)
                /\ UNCHANGED container
    /\ calls' = Finished(c)
    /\ UNCHANGED <<gate, now, immediate, history, ops>>

----------------------------------------------------------------------------
(* Retention manager *)

\* cleanOldMessages up to its first delete: the gate, the query, and the early
\* return when the query gave at most keepLast documents; otherwise the
\* documents of messages.slice(keepLast) wait for their deletes
CleanOldMessages(conversationId, userId, keepLast, outcome) ==
    /\ \/ /\ ~cosmosAvailable
          /\ ret' = Return("cleanOldMessages", conversationId, userId, <<>>,
                           FALSE, 0, "gate", keepLast, 0)
          /\ UNCHANGED calls
       \/ /\ cosmosAvailable
          /\ outcome = "ok"
          /\ \E messages \in OrderByTimestampDesc(CleanMatches(conversationId, userId)) :
                LET before == Cardinality(PairMessages(conversationId, userId))
                    messagesToDelete == Slice(messages, keepLast)
                IN  IF Len(messages) <= keepLast
                    THEN /\ ret' = Return("cleanOldMessages", conversationId, userId, <<>>,
                                          FALSE, 0, "none", keepLast, before)
                         /\ UNCHANGED calls
                    ELSE /\ BagCardinality(calls) < MaxCalls
                         /\ calls' = Started(
                               [Call EXCEPT !.op = "cleanOldMessages", !.pc = "clean",
                                            !.conversationId = conversationId,
                                            !.userId = userId,
                                            !.keepLast = keepLast, !.found = before,
                                            !.todo = [i \in 1..Len(messagesToDelete) |->
                                                         messagesToDelete[i].id]])
                         /\ ret' = NoRet
       \/ /\ cosmosAvailable
          /\ outcome # "ok"
          /\ ret' = Return("cleanOldMessages", conversationId, userId, <<>>,
                           FALSE, 0, "query", keepLast, 0)
          /\ UNCHANGED calls
    /\ UNCHANGED <<gate, container, now, immediate, history, ops>>

\* container.item(msg.id, userId).delete() of cleanOldMessages resolves, or
\* throws (404 when the document is already gone, or another error) and is
\* skipped; after the last document cleanOldMessages returns deletedCount
CleanDone(c, outcome) ==
    /\ c.pc = "clean"
    /\ LET target == IF outcome = "ok" THEN ReadItem(Head(c.todo), c.userId) ELSE {}
           deletedCount == c.deletedCount + Cardinality(target)
           error == IF target # {} THEN c.error
                    ELSE IF outcome = "ok" THEN "notfound" ELSE "delete"
       IN  /\ container' = container \ target
           /\ lastSaved' = {l \in lastSaved : l.doc \notin target}
           /\ IF Len(c.todo) > 1
              THEN /\ calls' = Continued(c,
                         [c EXCEPT !.todo = Tail(c.todo), !.deletedCount = deletedCount,
                                   !.error = error])
                   /\ ret' = NoRet
              ELSE /\ calls' = Finished(c)
                   /\ ret' = Return("cleanOldMessages", c.conversationId, c.userId, <<>>,
                                    FALSE, deletedCount, error, c.keepLast, c.found)
    /\ UNCHANGED <<gate, now, immediate, ops, invoked, deleted>>

\* deleteConversation up to its first delete: the gate and the query; with no
\* document to delete it returns false at once
DeleteConversation(conversationId, userId, outcome) ==
    /\ CanCall
    /\ ops' = ops + 1
    /\ \/ /\ ~cosmosAvailable
          /\ ret' = Return("deleteConversation", conversationId, userId, <<>>,
                           FALSE, 0, "gate", 0, 0)
          /\ UNCHANGED <<calls, deleted>>
       \/ /\ cosmosAvailable
          /\ outcome = "ok"
          /\ \E docs \in Orders(DeleteMatches(conversationId, userId)) :
                IF docs = <<>>
                THEN /\ ret' = Return("deleteConversation", conversationId, userId, <<>>,
                                      FALSE, 0, "none", 0, 0)
                     /\ deleted' = [deleted EXCEPT ![<<conversationId, userId>>] = "done"]
                     /\ UNCHANGED calls
                ELSE /\ calls' = Started(
                           [Call EXCEPT !.op = "deleteConversation", !.pc = "delete",
                                        !.conversationId = conversationId, !.userId = userId,
                                        !.todo = [i \in 1..Len(docs) |-> docs[i].id]])
                     /\ deleted' = [deleted EXCEPT ![<<conversationId, userId>>] = "running"]
                     /\ ret' = NoRet
       \/ /\ cosmosAvailable
          /\ outcome # "ok"
          /\ ret' = Return("deleteConversation", conversationId, userId, <<>>,
                           FALSE, 0, "query", 0, 0)
          /\ deleted' = [deleted EXCEPT ![<<conversationId, userId>>] = "failed"]
          /\ UNCHANGED calls
    /\ UNCHANGED <<gate, container, now, immediate, lastSaved, invoked>>

\* a delete loop that counts the delete of a document already gone
DeleteDoneCounting(c, outcome) ==
    /\ c.pc = "delete"
    /\ LET target == IF outcome = "ok" THEN ReadItem(Head(c.todo), c.userId) ELSE {}
           deletedCount == c.deletedCount + (IF outcome = "ok" THEN 1 ELSE 0)
           error == IF target # {} THEN c.error
                    ELSE IF outcome = "ok" THEN "notfound" ELSE "delete"
       IN  /\ container' = container \ target
           /\ lastSaved' = {l \in lastSaved : l.doc \notin target}
           /\ IF Len(c.todo) > 1
              THEN /\ calls' = Continued(c,
                         [c EXCEPT !.todo = Tail(c.todo), !.deletedCount = deletedCount,
                                   !.error = error])
                   /\ ret' = NoRet
                   /\ UNCHANGED deleted
              ELSE /\ calls' = Finished(c)
                   /\ ret' = Return("deleteConversation", c.conversationId, c.userId, <<>>,
                                    deletedCount > 0, deletedCount, error, 0, 0)
                   /\ deleted' = [deleted EXCEPT ![<<c.conversationId, c.userId>>] =
                                     IF error = "none" THEN "done" ELSE "failed"]
    /\ UNCHANGED <<gate, now, immediate, ops, invoked>>

\* container.item(doc.id, userId).delete() resolves, or throws (404 when the
\* document is already gone, or another error) and is skipped; after the last
\* document deleteConversation returns deletedCount > 0
DeleteDone(c, outcome) ==
    /\ c.pc = "delete"
    /\ LET target == IF outcome = "ok" THEN ReadItem(Head(c.todo), c.userId) ELSE {}
           deletedCount == c.deletedCount + Cardinality(target)
           error == IF target # {} THEN c.error
                    ELSE IF outcome = "ok" THEN "notfound" ELSE "delete"
       IN  /\ container' = container \ target
           /\ lastSaved' = {l \in lastSaved : l.doc \notin target}
           /\ IF Len(c.todo) > 1
              THEN /\ calls' = Continued(c,
                         [c EXCEPT !.todo = Tail(c.todo), !.deletedCount = deletedCount,
                                   !.error = error])
                   /\ ret' = NoRet
                   /\ UNCHANGED deleted
              ELSE /\ calls' = Finished(c)
                   /\ ret' = Return("deleteConversation", c.conversationId, c.userId, <<>>,
                                    deletedCount > 0, deletedCount, error, 0, 0)
                   /\ deleted' = [deleted EXCEPT ![<<c.conversationId, c.userId>>] =
                                     IF error = "none" THEN "done" ELSE "failed"]
    /\ UNCHANGED <<gate, now, immediate, ops, invoked>>

----------------------------------------------------------------------------
(* Statistics *)

\* the labels of the count queries of getStats, in the order they run
StatsLabels ==
    <<"totalDocuments", "conversations", "userMessages", "botMessages", "systemMessages">>

\* SELECT VALUE COUNT(1) of each count query, over every partition
StatsCount(label) ==
    CASE label = "totalDocuments" -> Cardinality(container)
      [] label = "conversations" ->
            Cardinality({d \in container : d.documentType = "conversation_info"})
      [] label = "userMessages" -> Cardinality({d \in container : d.messageType = "user"})
      [] label = "botMessages" -> Cardinality({d \in container : d.messageType = "bot"})
      [] OTHER -> Cardinality({d \in container : d.messageType = "system"})

\* recentActivity: the timestamp of the latest message document, or NoTime for null
RecentActivity ==
    LET messages == {d \in container : Defined(d.messageType) /\ d.timestamp # NoTime}
    IN  IF messages = {} THEN NoTime
        ELSE (CHOOSE d \in messages : \A e \in messages : e.timestamp <= d.timestamp).timestamp

\* statsResults[q.label] = 'ERROR', the value a count query that threw leaves
StatsError == -1

\* a test that takes 'ERROR' for a number
AlwaysNumber(v) == TRUE

\* typeof v === 'number'
TypeofNumber(v) == v # StatsError

\* typeof v === 'number' ? v : 0
NumberOrZero(v) == IF TypeofNumber(v) THEN v ELSE 0

\* the object getStats returns with the gate open: `failed` holds the labels of
\* the count queries that threw, whose statistic is 'ERROR'; totalMessages adds
\* the three message counts that are numbers; recentActivity stays null when
\* its query throws
StatsObject(failed, recentOutcome) ==
    LET statsResults == [l \in {StatsLabels[i] : i \in DOMAIN StatsLabels} |->
                            IF l \in failed THEN StatsError ELSE StatsCount(l)]
    IN  [ available      |-> TRUE,
          initialized    |-> initialized,
          error          |-> Null,
          stats          |-> statsResults,
          failed         |-> failed,
          totalMessages  |-> NumberOrZero(statsResults["userMessages"])
                                + NumberOrZero(statsResults["botMessages"])
                                + NumberOrZero(statsResults["systemMessages"]),
          recentActivity |-> IF recentOutcome = "ok" THEN RecentActivity ELSE NoTime,
          timestamp      |-> now ]

\* the object getStats returns with the gate closed
StatsUnavailable ==
    [ available      |-> FALSE,
      initialized    |-> initialized,
      error          |-> initializationError,
      stats          |-> [l \in {StatsLabels[i] : i \in DOMAIN StatsLabels} |-> 0],
      failed         |-> {},
      totalMessages  |-> 0,
      recentActivity |-> NoTime,
      timestamp      |-> NoTime ]

\* getStats: the gate, the five count queries, the query of the latest message
GetStats(failed, recentOutcome) ==
    /\ \/ /\ ~cosmosAvailable
          /\ ret' = Return("getStats", "", "", <<StatsUnavailable>>, FALSE, 0, "gate", 0, 0)
       \/ /\ cosmosAvailable
          /\ ret' = Return("getStats", "", "", <<StatsObject(failed, recentOutcome)>>, FALSE, 0,
                           IF failed = {} /\ recentOutcome = "ok" THEN "none" ELSE "query",
                           0, 0)
    /\ UNCHANGED <<gate, container, now, calls, immediate, history, ops>>

----------------------------------------------------------------------------
(* The service *)

\* what a store call may do: resolve, or throw an error other than 404 / 409
Outcomes == {"ok", "error"}

\* the count queries of getStats that throw: none, one, or all of them
StatsFailures == {{}, {"userMessages"}, {StatsLabels[i] : i \in DOMAIN StatsLabels}}

\* the calls of saveMessage a caller makes: text, userName, messageType
MessageCalls ==
    { <<NoText, Null, "user">>,
      <<Text("hola", 4), "Ana", "user">>,
      <<Text("largo", MaxMessageLength + 1), Null, "bot">> }

\* the calls of saveConversationInfo a caller makes: userName, additionalData
MetadataCalls ==
    { <<Null, NoFields>>,
      <<"Ana", [extra |-> "vip"]>>,
      <<"Ana", [id |-> [prefix |-> "custom_", ms |-> NoTime, tail |-> "x"]]>> }

\* the random suffixes already drawn in this millisecond, stored or in flight
DrawnSuffixes ==
    {d.id.tail : d \in {e \in container \cup UNION {c.doc : c \in InFlight} :
                            e.id.prefix = "msg_" /\ e.id.ms = now}}

\* A suffix matters only by being equal to, or different from, the suffixes it
\* can collide with: the draws are those already made in this millisecond, and
\* one that was not.
SuffixDraws ==
    DrawnSuffixes \cup
        (IF Suffixes \subseteq DrawnSuffixes THEN {}
         ELSE {CHOOSE x \in Suffixes \ DrawnSuffixes : TRUE})

SaveMessageCalls(conversations, users) ==
    \E m \in MessageCalls, conversationId \in conversations, userId \in users,
       suffix \in SuffixDraws :
        SaveMessage(m[1], conversationId, userId, m[2], m[3], suffix)

SaveConversationInfoCalls(conversations, users) ==
    \E m \in MetadataCalls, conversationId \in conversations, userId \in users :
        SaveConversationInfo(conversationId, userId, m[1], m[2])

Next ==
    \/ TestConnection
    \/ Tick
    \/ SaveMessageCalls(ConversationArgs, UserArgs)
    \/ \E c \in InFlight, outcome \in Outcomes : CreateDone(c, outcome)
    \/ \E conversationId \in Conversations, userId \in Users, limit \in Limits,
          outcome \in Outcomes :
            GetConversationHistory(conversationId, userId, limit, outcome)
    \/ SaveConversationInfoCalls(ConversationArgs, UserArgs)
    \/ \E c \in InFlight, outcome \in Outcomes : SaveConversationInfoDone(c, outcome)
    \/ \E conversationId \in Conversations, userId \in Users, outcome \in Outcomes :
            GetConversationInfo(conversationId, userId, outcome)
    \/ \E conversationId \in ConversationArgs, userId \in UserArgs :
            UpdateConversationActivity(conversationId, userId)
    \/ \E conversationId \in Conversations, userId \in Users :
            SetImmediateRuns(conversationId, userId)
    \/ \E c \in InFlight, outcome \in Outcomes : ReadDone(c, outcome)
    \/ \E c \in InFlight, outcome \in Outcomes : UpsertDone(c, outcome)
    \/ \E conversationId \in Conversations, userId \in Users, keepLast \in KeepLasts,
          outcome \in Outcomes :
            CleanOldMessages(conversationId, userId, keepLast, outcome)
    \/ \E conversationId \in Conversations, userId \in Users, outcome \in Outcomes :
            DeleteConversation(conversationId, userId, outcome)
    \/ \E c \in InFlight, outcome \in Outcomes : CleanDone(c, outcome)
    \/ \E c \in InFlight, outcome \in Outcomes : DeleteDone(c, outcome)
    \/ \E failed \in SUBSET {StatsLabels[i] : i \in DOMAIN StatsLabels},
          recentOutcome \in Outcomes :
            GetStats(failed, recentOutcome)

\* the whole service, every operation and every store outcome
Spec == Init /\ [][Next]_vars

----------------------------------------------------------------------------
(* Parts of the service *)

\* constructed with the configuration present: the gate is open
InitOpen == Init /\ cosmosAvailable

\* updateConversationActivity called again only after the call before it has
\* returned, every read and upsert resolving
NextSequential ==
    \/ Tick
    \/ \E conversationId \in Conversations, userId \in Users :
          /\ calls = EmptyBag
          /\ UpdateConversationActivity(conversationId, userId)
    \/ \E c \in InFlight : ReadDone(c, "ok")
    \/ \E c \in InFlight : UpsertDone(c, "ok")

SpecSequential == InitOpen /\ [][NextSequential]_vars

\* concurrent calls of updateConversationActivity, every read and upsert resolving
NextActivity ==
    \/ Tick
    \/ \E conversationId \in Conversations, userId \in Users :
          UpdateConversationActivity(conversationId, userId)
    \/ \E c \in InFlight : ReadDone(c, "ok")
    \/ \E c \in InFlight : UpsertDone(c, "ok")

SpecActivity == InitOpen /\ [][NextActivity]_vars

\* the conversation metadata repository and deleteConversation, with every
\* store outcome
NextMetadata ==
    \/ Tick
    \/ \E conversationId \in ConversationArgs, userId \in UserArgs :
          UpdateConversationActivity(conversationId, userId)
    \/ \E c \in InFlight, outcome \in Outcomes : ReadDone(c, outcome)
    \/ \E c \in InFlight, outcome \in Outcomes : UpsertDone(c, outcome)
    \/ SaveConversationInfoCalls(ConversationArgs, UserArgs)
    \/ \E c \in InFlight, outcome \in Outcomes : SaveConversationInfoDone(c, outcome)
    \/ \E conversationId \in Conversations, userId \in Users, outcome \in Outcomes :
          GetConversationInfo(conversationId, userId, outcome)
    \/ \E conversationId \in Conversations, userId \in Users, outcome \in Outcomes :
          DeleteConversation(conversationId, userId, outcome)
    \/ \E c \in InFlight, outcome \in Outcomes : DeleteDone(c, outcome)

SpecMetadata == InitOpen /\ [][NextMetadata]_vars

\* the conversation metadata repository without deleteConversation, with every
\* store outcome
NextInfo ==
    \/ Tick
    \/ \E conversationId \in Conversations, userId \in Users :
          UpdateConversationActivity(conversationId, userId)
    \/ \E c \in InFlight, outcome \in Outcomes : ReadDone(c, outcome)
    \/ \E c \in InFlight, outcome \in Outcomes : UpsertDone(c, outcome)
    \/ SaveConversationInfoCalls(Conversations, Users)
    \/ \E c \in InFlight, outcome \in Outcomes : SaveConversationInfoDone(c, outcome)
    \/ \E conversationId \in Conversations, userId \in Users, outcome \in Outcomes :
          GetConversationInfo(conversationId, userId, outcome)

SpecInfo == InitOpen /\ [][NextInfo]_vars

\* the message repository with the metadata refresh it schedules: at most
\* MaxAppends calls of saveMessage, every read and upsert of the refresh resolving
NextMessages ==
    \/ Tick
    \/ ops < MaxAppends /\ SaveMessageCalls(Conversations, Users)
    \/ \E c \in InFlight, outcome \in Outcomes : CreateDone(c, outcome)
    \/ \E conversationId \in Conversations, userId \in Users :
          SetImmediateRuns(conversationId, userId)
    \/ \E c \in InFlight : ReadDone(c, "ok")
    \/ \E c \in InFlight : UpsertDone(c, "ok")
    \/ \E conversationId \in Conversations, userId \in Users, limit \in Limits :
          GetConversationHistory(conversationId, userId, limit, "ok")

SpecMessages == InitOpen /\ [][NextMessages]_vars

\* appends of a conversation with the refresh each schedules, then one
\* deleteConversation invoked once every saveMessage has returned, no caller
\* invoking saveMessage after it; the store healthy
NextDelete ==
    \/ Tick
    \/ /\ ops < MaxAppends
       /\ \A p \in Pairs : deleted[p] = "no"
       /\ SaveMessageCalls({"c1"}, Users)
    \/ \E c \in InFlight : CreateDone(c, "ok")
    \/ \E userId \in Users : SetImmediateRuns("c1", userId)
    \/ \E c \in InFlight : ReadDone(c, "ok")
    \/ \E c \in InFlight : UpsertDone(c, "ok")
    \/ \E userId \in Users :
          /\ deleted[<<"c1", userId>>] = "no"
          /\ \A c \in InFlight : c.op # "saveMessage"
          /\ DeleteConversation("c1", userId, "ok")
    \/ \E c \in InFlight : DeleteDone(c, "ok")
    \/ \E userId \in Users : GetConversationInfo("c1", userId, "ok")
    \/ \E userId \in Users, limit \in Limits :
          GetConversationHistory("c1", userId, limit, "ok")

SpecDelete == InitOpen /\ [][NextDelete]_vars

\* constructed without its configuration, or with CosmosClient throwing: the
\* gate is closed
InitClosed == Init /\ ~cosmosAvailable

\* every operation a caller can invoke, with every argument
NextClosed ==
    \/ Tick
    \/ SaveMessageCalls(ConversationArgs, UserArgs)
    \/ SaveConversationInfoCalls(ConversationArgs, UserArgs)
    \/ \E conversationId \in ConversationArgs, userId \in UserArgs :
          UpdateConversationActivity(conversationId, userId)
    \/ \E conversationId \in Conversations, userId \in Users, outcome \in Outcomes :
          GetConversationInfo(conversationId, userId, outcome)
    \/ \E conversationId \in Conversations, userId \in Users, limit \in Limits,
          outcome \in Outcomes :
            GetConversationHistory(conversationId, userId, limit, outcome)
    \/ \E conversationId \in Conversations, userId \in Users, keepLast \in KeepLasts,
          outcome \in Outcomes :
            CleanOldMessages(conversationId, userId, keepLast, outcome)
    \/ \E conversationId \in Conversations, userId \in Users, outcome \in Outcomes :
          DeleteConversation(conversationId, userId, outcome)
    \/ \E failed \in SUBSET {StatsLabels[i] : i \in DOMAIN StatsLabels},
          recentOutcome \in Outcomes :
            GetStats(failed, recentOutcome)

SpecClosed == InitClosed /\ [][NextClosed]_vars

\* the three writing operations called with every argument, valid or not, the
\* store healthy
NextValidation ==
    \/ SaveMessageCalls(ConversationArgs, UserArgs)
    \/ \E c \in InFlight : CreateDone(c, "ok")
    \/ \E conversationId \in Conversations, userId \in Users :
          SetImmediateRuns(conversationId, userId)
    \/ SaveConversationInfoCalls(ConversationArgs, UserArgs)
    \/ \E c \in InFlight : SaveConversationInfoDone(c, "ok")
    \/ \E conversationId \in ConversationArgs, userId \in UserArgs :
          UpdateConversationActivity(conversationId, userId)
    \/ \E c \in InFlight : ReadDone(c, "ok")
    \/ \E c \in InFlight : UpsertDone(c, "ok")

SpecValidation == InitOpen /\ [][NextValidation]_vars

\* saveMessage called by callers, updateConversationActivity run only by the
\* callbacks saveMessage hands to setImmediate; every store call resolves or throws
NextRefresh ==
    \/ ops < MaxAppends /\ SaveMessageCalls(Conversations, Users)
    \/ \E c \in InFlight, outcome \in Outcomes : CreateDone(c, outcome)
    \/ \E conversationId \in Conversations, userId \in Users :
          SetImmediateRuns(conversationId, userId)
    \/ \E c \in InFlight, outcome \in Outcomes : ReadDone(c, outcome)
    \/ \E c \in InFlight, outcome \in Outcomes : UpsertDone(c, outcome)

\* the event loop runs every callback queued with setImmediate, and every store
\* call issued comes back, resolved or thrown
SpecRefresh ==
    /\ InitOpen
    /\ [][NextRefresh]_vars
    /\ \A p \in Pairs : WF_vars(SetImmediateRuns(p[1], p[2]))
    /\ WF_vars(\E c \in InFlight, outcome \in Outcomes : CreateDone(c, outcome))
    /\ WF_vars(\E c \in InFlight, outcome \in Outcomes : ReadDone(c, outcome))
    /\ WF_vars(\E c \in InFlight, outcome \in Outcomes : UpsertDone(c, outcome))

\* the ids saveMessage can have generated: a millisecond and a suffix
StoredIds == (0..MaxTime) \X Suffixes

\* the calls of saveMessage behind the documents stored: a call of MessageCalls
\* that passes the validation, for a conversation
StoredCalls ==
    {<<m, c>> \in MessageCalls \X Conversations :
        ~FalsyText(m[1]) /\ (c = "c1" \/ m[3] = "user")}

\* the message document saveMessage stored under id i for the call k of user u
StoredMessage(i, k, u) ==
    MessageDoc(GenerateMessageId(i[1], i[2]), k[1][1], k[2], u, k[1][2], k[1][3], i[1])

\* the metadata documents a first updateConversationActivity can have stored
StoredMetadata ==
    {UpdatedDoc({}, c, u, 0) : c \in Conversations, u \in Users}

\* the stores of at most MaxStored message documents, ids unique in a
\* partition, without metadata documents or with those of every pair
Stores ==
    UNION {{{StoredMessage(i, k[i], u) : i \in I} \cup M :
               k \in [I -> StoredCalls], u \in Users, M \in {{}, StoredMetadata}} :
           I \in {J \in SUBSET StoredIds : Cardinality(J) <= MaxStored}}

\* the service configured, over any such store, with no call in flight
InitStore ==
    /\ cosmosAvailable = TRUE
    /\ initialized = TRUE
    /\ initializationError = Null
    /\ probe = "ok"
    /\ container \in Stores
    /\ now = MaxTime
    /\ calls = EmptyBag
    /\ immediate = [p \in Pairs |-> 0]
    /\ ret = NoRet
    /\ lastSaved = {}
    /\ ops = 0
    /\ invoked = [p \in Pairs |-> 0]
    /\ deleted = [p \in Pairs |-> "no"]

\* the two operations that read the message documents of a pair and return,
\* called for one conversation, the documents of the other stored beside it
NextStore ==
    \/ \E userId \in Users, limit \in Limits :
          GetConversationHistory("c1", userId, limit, "ok")
    \/ \E userId \in Users, keepLast \in KeepLasts :
          CleanOldMessages("c1", userId, keepLast, "ok")

SpecStore == InitStore /\ [][NextStore]_vars

\* every operation called for one conversation over a store that holds
\* documents, with store calls that throw: every create, every query but the
\* one of deleteConversation, and every delete throws; reads and upserts
\* resolve or throw
NextFailing ==
    \/ SaveMessageCalls({"c1"}, Users)
    \/ \E c \in InFlight : CreateDone(c, "error")
    \/ SaveConversationInfoCalls({"c1"}, Users)
    \/ \E c \in InFlight, outcome \in Outcomes : SaveConversationInfoDone(c, outcome)
    \/ \E userId \in Users : UpdateConversationActivity("c1", userId)
    \/ \E c \in InFlight, outcome \in Outcomes : ReadDone(c, outcome)
    \/ \E c \in InFlight, outcome \in Outcomes : UpsertDone(c, outcome)
    \/ \E userId \in Users : GetConversationInfo("c1", userId, "error")
    \/ \E userId \in Users, limit \in Limits :
          GetConversationHistory("c1", userId, limit, "error")
    \/ \E userId \in Users, keepLast \in KeepLasts :
          CleanOldMessages("c1", userId, keepLast, "error")
    \/ \E userId \in Users, outcome \in Outcomes : DeleteConversation("c1", userId, outcome)
    \/ \E c \in InFlight : DeleteDone(c, "error")
    \/ \E failed \in StatsFailures, recentOutcome \in Outcomes :
          /\ failed # {} \/ recentOutcome # "ok"
          /\ GetStats(failed, recentOutcome)

\* over a store of one conversation: its metadata document, or one message
\* document of time 0, or both, or neither
InitFailing ==
    /\ InitStore
    /\ \A d \in container : d.conversationId = "c1" /\ d.id.ms <= 0
    /\ Cardinality(container) <= 2

SpecFailing == InitFailing /\ [][NextFailing]_vars

\* every operation that reads or writes the documents of a conversation, with
\* every store outcome; at most MaxAppends calls of the operations that wait for
\* a write. The additionalData of a saveConversationInfo may carry the id of a
\* message document, which saveMessage and getConversationHistory return.
NextDocuments ==
    \/ /\ ops < MaxAppends
       /\ \/ SaveMessageCalls({"c1"}, Users)
          \/ SaveConversationInfoCalls({"c1"}, Users)
          \/ \E userId \in Users : \E d \in PairMessages("c1", userId) :
                SaveConversationInfo("c1", userId, "Ana", [id |-> d.id])
          \/ \E userId \in Users : UpdateConversationActivity("c1", userId)
          \/ \E userId \in Users, outcome \in Outcomes :
                DeleteConversation("c1", userId, outcome)
    \/ \E c \in InFlight, outcome \in Outcomes : CreateDone(c, outcome)
    \/ \E userId \in Users : SetImmediateRuns("c1", userId)
    \/ \E c \in InFlight, outcome \in Outcomes : SaveConversationInfoDone(c, outcome)
    \/ \E c \in InFlight, outcome \in Outcomes : ReadDone(c, outcome)
    \/ \E c \in InFlight, outcome \in Outcomes : UpsertDone(c, outcome)
    \/ \E c \in InFlight, outcome \in Outcomes : DeleteDone(c, outcome)
    \/ \E userId \in Users, outcome \in Outcomes :
          GetConversationInfo("c1", userId, outcome)
    \/ \E userId \in Users, limit \in Limits, outcome \in Outcomes :
          GetConversationHistory("c1", userId, limit, outcome)
    \/ \E userId \in Users, keepLast \in KeepLasts, outcome \in Outcomes :
          CleanOldMessages("c1", userId, keepLast, outcome)
    \/ \E failed \in StatsFailures, recentOutcome \in Outcomes :
          GetStats(failed, recentOutcome)

\* over a store of one conversation: message documents of time 0, with its
\* metadata document or without
InitDocuments ==
    /\ InitStore
    /\ \A d \in container : d.conversationId = "c1" /\ d.id.ms <= 0

SpecDocuments == InitDocuments /\ [][NextDocuments]_vars

\* the two batches of deletes, cleanOldMessages and deleteConversation, called
\* for one conversation again and again, also while a batch is running, with
\* every outcome of the query and of each delete
NextBatches ==
    \/ \E userId \in Users, keepLast \in KeepLasts, outcome \in Outcomes :
          CleanOldMessages("c1", userId, keepLast, outcome)
    \/ \E userId \in Users, outcome \in Outcomes : DeleteConversation("c1", userId, outcome)
    \/ \E c \in InFlight, outcome \in Outcomes : DeleteDone(c, outcome)

\* over a store of the message documents of time 0 of both conversations, with
\* the metadata documents or without
InitBatches ==
    /\ InitStore
    /\ \A d \in container : d.id.ms <= 0

SpecBatches == InitBatches /\ [][NextBatches]_vars

\* getStats over a store of both conversations, every subset of its count
\* queries throwing
NextStats ==
    \E failed \in SUBSET {StatsLabels[i] : i \in DOMAIN StatsLabels},
       recentOutcome \in Outcomes :
        GetStats(failed, recentOutcome)

SpecStats == InitBatches /\ [][NextStats]_vars

\* the service from its construction, with the configuration missing, throwing
\* or present: the reachability probe resolves at any moment among the
\* operations on one conversation, whose store calls resolve
NextGate ==
    \/ TestConnection
    \/ SaveMessageCalls({"c1"}, Users)
    \/ \E c \in InFlight : CreateDone(c, "ok")
    \/ \E userId \in Users : SetImmediateRuns("c1", userId)
    \/ \E userId \in Users : UpdateConversationActivity("c1", userId)
    \/ \E c \in InFlight : ReadDone(c, "ok")
    \/ \E c \in InFlight : UpsertDone(c, "ok")
    \/ SaveConversationInfoCalls({"c1"}, Users)
    \/ \E c \in InFlight : SaveConversationInfoDone(c, "ok")
    \/ \E userId \in Users : GetConversationInfo("c1", userId, "ok")
    \/ \E userId \in Users, limit \in Limits :
          GetConversationHistory("c1", userId, limit, "ok")
    \/ \E userId \in Users, keepLast \in KeepLasts :
          CleanOldMessages("c1", userId, keepLast, "ok")
    \/ \E userId \in Users : DeleteConversation("c1", userId, "ok")
    \/ \E c \in InFlight : DeleteDone(c, "ok")
    \/ GetStats({}, "ok")

SpecGate == Init /\ [][NextGate]_vars

\* the operations called for one conversation while the documents of another
\* conversation of the user are stored, every store call resolving. The
\* additionalData of a saveConversationInfo may carry the id of a stored
\* document: saveMessage, getConversationHistory and getConversationInfo
\* return the ids, and that of a metadata document follows from its
\* conversationId.
NextIsolation ==
    \/ /\ ops < MaxAppends
       /\ \/ SaveMessageCalls({"c1"}, Users)
          \/ SaveConversationInfoCalls({"c1"}, Users)
          \/ \E userId \in Users : \E d \in container :
                SaveConversationInfo("c1", userId, "Ana", [id |-> d.id])
          \/ \E userId \in Users : UpdateConversationActivity("c1", userId)
          \/ \E userId \in Users : DeleteConversation("c1", userId, "ok")
    \/ \E c \in InFlight : CreateDone(c, "ok")
    \/ \E userId \in Users : SetImmediateRuns("c1", userId)
    \/ \E c \in InFlight : SaveConversationInfoDone(c, "ok")
    \/ \E c \in InFlight : ReadDone(c, "ok")
    \/ \E c \in InFlight : UpsertDone(c, "ok")
    \/ \E c \in InFlight : DeleteDone(c, "ok")
    \/ \E userId \in Users : GetConversationInfo("c1", userId, "ok")
    \/ \E userId \in Users, limit \in Limits :
          GetConversationHistory("c1", userId, limit, "ok")
    \/ \E userId \in Users, keepLast \in KeepLasts :
          CleanOldMessages("c1", userId, keepLast, "ok")

SpecIsolation == InitBatches /\ [][NextIsolation]_vars

----------------------------------------------------------------------------
(* Activity counter of a pair *)

\* C1: after k >= 1 calls of updateConversationActivity made one after another
\* on a pair that had no metadata document, every read and upsert succeeding,
\* the pair has one metadata document whose messageCount is k; and no step
\* changes the createdAt of a metadata document that is stored, so it stays
\* the value the first call wrote
SequentialCalls ==
    /\ [](\A p \in Pairs :
             (calls = EmptyBag /\ invoked[p] >= 1) =>
                /\ Cardinality(PairMetadata(p[1], p[2])) = 1
                /\ \A d \in PairMetadata(p[1], p[2]) : d.messageCount = invoked[p])
    /\ [][\A p \in Pairs :
             \A d \in PairMetadata(p[1], p[2]) :
                \A e \in PairMetadata(p[1], p[2])' : e.createdAt = d.createdAt]_vars

\* three calls made at three different times have returned
SequentialCallsReached ==
    /\ calls = EmptyBag
    /\ invoked[<<"c1", "u1">>] = MaxOps
    /\ \E d \in PairMetadata("c1", "u1") :
          /\ d.messageCount = MaxOps
          /\ d.createdAt = 0
          /\ d.lastActivity = MaxTime

\* C2: with the store healthy, every call of updateConversationActivity that
\* returns has returned true, none has met an already-exists conflict, however
\* the calls for a pair interleave, and a call whose read found no document
\* writes messageCount 1
ConcurrentCallsSucceed ==
    ret.op = "updateConversationActivity" =>
       /\ ret.flag
       /\ ret.error = "none"
       /\ Len(ret.value) = 1
       /\ ret.before = 0 => ret.value[1].messageCount = 1

\* two calls for a pair have returned, and the one that returned last had read
\* before the other wrote: it upserted over the document of the other
ConcurrentCallsSucceedReached ==
    /\ calls = EmptyBag
    /\ ret.op = "updateConversationActivity"
    /\ invoked[<<ret.conversationId, ret.userId>>] = 2
    /\ ret.before = 0
    /\ ret.flag

\* C3: when the n >= 1 calls of updateConversationActivity made for a pair
\* without a metadata document have all returned, the store healthy, the
\* messageCount stored lies between 1 and n; and the document stored when a
\* call returns is the one that call computed
ConcurrentCount ==
    /\ \A p \in Pairs :
          (calls = EmptyBag /\ invoked[p] >= 1) =>
             \A d \in PairMetadata(p[1], p[2]) :
                d.messageCount >= 1 /\ d.messageCount <= invoked[p]
    /\ ret.op = "updateConversationActivity" =>
          PairMetadata(ret.conversationId, ret.userId) = {ret.value[1]}

\* a lost increment: two calls have returned and the counter is 1
ConcurrentCountReached ==
    /\ calls = EmptyBag
    /\ invoked[<<"c1", "u1">>] = 2
    /\ \E d \in PairMetadata("c1", "u1") : d.messageCount = 1

\* C4: with no deleteConversation, no step makes the messageCount of a stored
\* metadata document smaller than it was
CountNeverDecreases ==
    [][\A p \in Pairs :
          \A d \in PairMetadata(p[1], p[2]) :
             \A e \in PairMetadata(p[1], p[2])' : e.messageCount >= d.messageCount]_vars

----------------------------------------------------------------------------
(* createdAt of a metadata document *)

\* C5: no step changes the createdAt of a metadata document that is stored,
\* whether the step is an upsert of saveConversationInfo or of
\* updateConversationActivity, and whether the read before it succeeded or failed
CreatedAtNeverChanges ==
    [][\A p \in Pairs :
          \A d \in PairMetadata(p[1], p[2]) :
             \A e \in PairMetadata(p[1], p[2])' : e.createdAt = d.createdAt]_vars

----------------------------------------------------------------------------
(* Writes against an id already stored *)

\* C6: no write of saveMessage, saveConversationInfo or
\* updateConversationActivity fails because the id it targets is already
\* stored: no call returns after an already-exists conflict
NoWriteConflicts == ret.error # "conflict"

----------------------------------------------------------------------------
(* History of a pair *)

\* the history just returned is that of the pair of the last message stored
HistoryOfLastSaved(l) ==
    /\ ret.op = "getConversationHistory"
    /\ ret.error = "none"
    /\ ret.conversationId = l.doc.conversationId
    /\ ret.userId = l.doc.userId

\* the last element of the history returned carries the first
\* MaxMessageLength characters of the input of the last message stored
LastIsInput(l) ==
    /\ Len(ret.value) >= 1
    /\ ret.value[Len(ret.value)].message =
          [body |-> l.input.body,
           len  |-> IF l.input.len <= MaxMessageLength THEN l.input.len
                    ELSE MaxMessageLength]

HistoryAscending ==
    ret.op = "getConversationHistory" =>
       \A i \in 1..(Len(ret.value) - 1) :
          ret.value[i].timestamp <= ret.value[i + 1].timestamp

\* a history of two messages of different times, the store having returned the
\* later one first
HistoryAscendingReached ==
    /\ ret.op = "getConversationHistory"
    /\ Len(ret.value) = 2
    /\ ret.value[1].timestamp < ret.value[2].timestamp
    /\ ret.before = 2

----------------------------------------------------------------------------
(* Retention *)

\* C10: a cleanOldMessages with keepLast N, on a pair holding M > N message
\* documents, no delete failing, returns M - N and leaves N message documents
CleanKeepsLast ==
    (ret.op = "cleanOldMessages" /\ ret.error = "none" /\ ret.before > ret.arg) =>
       /\ ret.count = ret.before - ret.arg
       /\ Cardinality(PairMessages(ret.conversationId, ret.userId)) = ret.arg

\* C11: a cleanOldMessages with keepLast N on a pair holding M <= N message
\* documents returns 0 with no delete attempted: the step leaves the store and
\* the calls in flight as they were, and no cleanOldMessages waits for a delete
\* unless it found M > N
CleanBelowKeepLast ==
    [][/\ (ret'.op = "cleanOldMessages" /\ ret'.error # "gate"
             /\ ret'.before <= ret'.arg) =>
             /\ ret'.count = 0
             /\ ret'.error = "none"
             /\ container' = container
             /\ calls' = calls
       /\ \A c \in BagToSet(calls') :
             c.op = "cleanOldMessages" => c.found > c.keepLast]_vars

\* a cleanup with keepLast 1 of a pair holding one message document has returned
CleanBelowKeepLastReached ==
    /\ ret.op = "cleanOldMessages"
    /\ ret.arg = 1
    /\ ret.before = 1
    /\ ret.count = 0
    /\ Cardinality(PairMessages(ret.conversationId, ret.userId)) = 1

----------------------------------------------------------------------------
(* Deletion of a conversation *)

\* C12: once deleteConversation has completed for a pair with no delete
\* failing, no caller writing for the pair after it was invoked, a
\* getConversationInfo of the pair returns null and a getConversationHistory
\* of the pair returns []
DeletedStaysDeleted ==
    \A p \in Pairs :
       (deleted[p] = "done" /\ ret.conversationId = p[1] /\ ret.userId = p[2]) =>
          /\ ret.op = "getConversationInfo" => ret.value = <<>>
          /\ ret.op = "getConversationHistory" => ret.value = <<>>

----------------------------------------------------------------------------
(* Degraded values *)

\* C13: with the gate closed for missing configuration, every operation has
\* returned at the gate with its degraded value (null, [], false or 0; for
\* getStats the object with available false and the initialization error), no
\* call waits for the store, no refresh is queued and nothing is stored
ClosedGateDegrades ==
    (~cosmosAvailable /\ initializationError = "Variables de entorno de Cosmos DB faltantes") =>
       /\ calls = EmptyBag
       /\ container = {}
       /\ \A p \in Pairs : immediate[p] = 0 /\ invoked[p] = 0
       /\ ret.op # "none" =>
             /\ ret.error = "gate"
             /\ ~ret.flag
             /\ ret.count = 0
             /\ IF ret.op = "getStats"
                THEN /\ Len(ret.value) = 1
                     /\ ~ret.value[1].available
                     /\ ret.value[1].error = initializationError
                ELSE ret.value = <<>>

\* with the configuration missing, getStats has returned
ClosedGateDegradesReached ==
    /\ ~cosmosAvailable
    /\ initializationError = "Variables de entorno de Cosmos DB faltantes"
    /\ ret.op = "getStats"
    /\ ops = MaxOps

\* C14: with the gate open, an operation that met a failing store call has
\* returned its degraded value: null from saveMessage, saveConversationInfo and
\* getConversationInfo, [] from getConversationHistory, false from
\* updateConversationActivity when its upsert threw (true when only its read
\* threw), 0 from cleanOldMessages when its query threw, false from
\* deleteConversation when its query threw or no delete succeeded, and from
\* getStats the object with available true
FailuresAbsorbed ==
    (cosmosAvailable /\ ret.error \in {"create", "query", "read", "upsert", "delete"}) =>
       CASE ret.op \in {"saveMessage", "saveConversationInfo", "getConversationInfo",
                        "getConversationHistory"} ->
               ret.value = <<>>
         [] ret.op = "updateConversationActivity" ->
               /\ ret.flag <=> ret.error = "read"
               /\ ~ret.flag => ret.value = <<>>
         [] ret.op = "cleanOldMessages" ->
               ret.error = "query" => ret.count = 0
         [] ret.op = "deleteConversation" ->
               /\ ret.flag <=> ret.count > 0
               /\ ret.error = "query" => ret.count = 0
         [] ret.op = "getStats" ->
               Len(ret.value) = 1 /\ ret.value[1].available
         [] OTHER -> FALSE

\* deleteConversation found documents, every delete threw, and it returned false
\* with the documents still stored
FailuresAbsorbedReached ==
    /\ ret.op = "deleteConversation"
    /\ ret.error = "delete"
    /\ ~ret.flag
    /\ DeleteMatches(ret.conversationId, ret.userId) # {}

----------------------------------------------------------------------------
(* Validation *)

\* C15: no call waits for the store with an empty or missing conversationId or
\* userId, nor a saveMessage with an empty message; and a saveMessage,
\* saveConversationInfo or updateConversationActivity that returns for such an
\* argument returns null / false in a step that leaves the store, the calls in
\* flight and the queued refreshes as they were
InvalidArgumentsRejected ==
    /\ [](\A c \in InFlight :
             /\ c.conversationId \notin {"", Null}
             /\ c.userId \notin {"", Null}
             /\ c.op = "saveMessage" => c.input.len > 0)
    /\ [][(/\ ret'.op \in {"saveMessage", "saveConversationInfo",
                           "updateConversationActivity"}
           /\ \/ ret'.conversationId \in {"", Null}
              \/ ret'.userId \in {"", Null}
              \/ ret'.error = "validation") =>
             /\ ret'.error = "validation"
             /\ ret'.value = <<>>
             /\ ~ret'.flag
             /\ container' = container
             /\ calls' = calls
             /\ immediate' = immediate
             /\ invoked' = invoked]_vars

\* a saveMessage with an empty message was rejected while a document is stored
\* and another call waits for the store
InvalidArgumentsRejectedReached ==
    /\ ret.op = "saveMessage"
    /\ ret.error = "validation"
    /\ ret.conversationId \notin {"", Null}
    /\ ret.userId \notin {"", Null}
    /\ container # {}
    /\ calls # EmptyBag

----------------------------------------------------------------------------
(* The refresh saveMessage schedules *)

\* C16: for each pair, the refreshes queued and the refreshes begun together
\* number the message documents created, so a saveMessage whose create
\* succeeded caused one and any other caused none; a refresh waits for the store
\* only for a pair whose message is stored; a saveMessage that returns a
\* document returns the one stored; and every refresh queued is eventually begun
RefreshPerCreate ==
    /\ [](\A p \in Pairs :
             immediate[p] + invoked[p] = Cardinality(PairMessages(p[1], p[2])))
    /\ [](\A c \in InFlight :
             c.op = "updateConversationActivity" =>
                PairMessages(c.conversationId, c.userId) # {})
    /\ []((ret.op = "saveMessage" /\ ret.value # <<>>) =>
             /\ ret.value[1] \in container
             /\ ret.error = "none")
    /\ \A p \in Pairs : \A k \in 1..MaxAppends :
          (immediate[p] + invoked[p] >= k) ~> (invoked[p] >= k)

\* two messages of a pair are stored, both refreshes have been begun and have
\* returned
RefreshPerCreateReached ==
    /\ Cardinality(PairMessages("c1", "u1")) = 2
    /\ invoked[<<"c1", "u1">>] = 2
    /\ immediate[<<"c1", "u1">>] = 0
    /\ calls = EmptyBag

----------------------------------------------------------------------------
(* A failed read inside updateConversationActivity *)

\* C17: an updateConversationActivity whose point read threw an error other
\* than 404, and whose upsert resolved, has returned true after storing a
\* document built as for a pair without metadata: messageCount 1, createdAt the
\* timestamp of the call, userName 'Usuario'
FailedReadStartsOver ==
    (ret.op = "updateConversationActivity" /\ ret.error = "read") =>
       /\ ret.flag
       /\ Len(ret.value) = 1
       /\ ret.value[1].messageCount = 1
       /\ ret.value[1].createdAt = ret.value[1].lastActivity
       /\ ret.value[1].userName = "Usuario"
       /\ ret.before = 0
       /\ ret.value[1] \in PairMetadata(ret.conversationId, ret.userId)

\* the read of a second or later call for the pair threw, at a time after 0
FailedReadStartsOverReached ==
    /\ ret.op = "updateConversationActivity"
    /\ ret.error = "read"
    /\ ret.flag
    /\ invoked[<<ret.conversationId, ret.userId>>] >= 2
    /\ ret.value[1].createdAt > 0

----------------------------------------------------------------------------
(* The identity of the metadata document *)

\* C18: a pair has at most one metadata document, whose id is "conversation_" +
\* conversationId and whose partition key is the userId
OneMetadataPerPair ==
    \A p \in Pairs :
       /\ Cardinality(PairMetadata(p[1], p[2])) <= 1
       /\ \A d \in PairMetadata(p[1], p[2]) :
             /\ d.id = ConversationDocId(p[1])
             /\ d.partitionKey = p[2]

----------------------------------------------------------------------------
(* The metadata document under cleanOldMessages *)

\* C19: a step that takes a metadata document out of the store is the delete
\* of deleteConversation for its id, or an upsert that stores a metadata
\* document under the same id; a step in which cleanOldMessages returns,
\* whatever keepLast, leaves every metadata document as it was; and the next
\* delete a cleanOldMessages waits for is never that of a metadata document
MetadataOutlivesClean ==
    [][/\ \A d \in container :
             (d.documentType = "conversation_info" /\ d \notin container') =>
                \/ \E c \in InFlight :
                      /\ c.op = "deleteConversation"
                      /\ c.pc = "delete"
                      /\ Head(c.todo) = d.id
                      /\ c.userId = d.partitionKey
                      /\ calls' # calls
                \/ /\ ret'.op # "cleanOldMessages"
                   /\ \E e \in container' :
                         /\ e.id = d.id
                         /\ e.partitionKey = d.partitionKey
                         /\ e.documentType = "conversation_info"
       /\ ret'.op = "cleanOldMessages" =>
             {d \in container' : d.documentType = "conversation_info"} =
                {d \in container : d.documentType = "conversation_info"}
       /\ \A c \in StartedCalls :
             c.pc = "clean" =>
                \A d \in ReadItem(Head(c.todo), c.userId) :
                   d.documentType # "conversation_info"]_vars

\* a cleanup with keepLast 0 has returned for a pair that holds two message
\* documents and its metadata document
MetadataOutlivesCleanReached ==
    /\ ret.op = "cleanOldMessages"
    /\ ret.error = "none"
    /\ ret.arg = 0
    /\ ret.before = 2
    /\ PairMetadata(ret.conversationId, ret.userId) # {}

----------------------------------------------------------------------------
(* The message documents *)

MessageDocuments(store) == {d \in store : Defined(d.messageType)}

\* C20: a step that changes the set of message documents adds one document in
\* the create of saveMessage, or removes documents in cleanOldMessages or in
\* the delete of deleteConversation; no step replaces a message document or
\* changes a field of one
MessagesNeverChange ==
    [][MessageDocuments(container') # MessageDocuments(container) =>
          \/ /\ ret'.op = "saveMessage"
             /\ MessageDocuments(container) \subseteq MessageDocuments(container')
             /\ Cardinality(MessageDocuments(container')) =
                   Cardinality(MessageDocuments(container)) + 1
          \/ /\ MessageDocuments(container') \subseteq MessageDocuments(container)
             /\ \/ ret'.op = "cleanOldMessages"
                \/ \E c \in InFlight :
                      /\ c.op = "deleteConversation"
                      /\ c.pc = "delete"
                      /\ calls' # calls]_vars

----------------------------------------------------------------------------
(* The delete loop of cleanOldMessages *)

\* C21: a cleanOldMessages that found M > keepLast message documents returns
\* only from the last delete of its loop; the loop it starts holds the ids of
\* the M - keepLast oldest message documents of the pair, each once; a delete
\* that throws leaves the store as it was, and one that resolves removes one
\* document and adds one to the count returned
CleanAttemptsOldest ==
    [][/\ (ret'.op = "cleanOldMessages" /\ ret'.error \notin {"gate", "query"}
             /\ ret'.before > ret'.arg) =>
             \E c \in InFlight :
                /\ c.pc = "clean"
                /\ Len(c.todo) = 1
                /\ calls' = Finished(c)
                /\ ret'.count = c.deletedCount + Cardinality(container \ container')
       /\ \A c \in StartedCalls :
             (c.pc = "clean" /\ c.deletedCount = 0 /\ c.error = "none"
                /\ container' = container) =>
                LET old == {d \in PairMessages(c.conversationId, c.userId) :
                               \E i \in DOMAIN c.todo : c.todo[i] = d.id}
                    kept == PairMessages(c.conversationId, c.userId) \ old
                IN  /\ Len(c.todo) = c.found - c.keepLast
                    /\ Cardinality(old) = Len(c.todo)
                    /\ \A d \in old, e \in kept : d.timestamp <= e.timestamp
       /\ \A c \in InFlight :
             (c.pc = "clean" /\ BagToSet(calls') # BagToSet(calls)
                /\ c \notin BagToSet(calls')) =>
                /\ container' \subseteq container
                /\ Cardinality(container \ container') <= 1
                /\ \A d \in container \ container' : d.id = Head(c.todo)]_vars

----------------------------------------------------------------------------
(* Running a batch of deletes again *)

\* C22: while cleanOldMessages and deleteConversation are run again and again
\* for a pair, a step only removes documents, and only documents of the pair
\* that a deleteConversation in flight was called for; a delete that throws or
\* finds its document gone removes nothing and is not counted, and the batch
\* goes on to its next document or returns; a deleteConversation whose deletes
\* all resolved leaves no document of the pair,
\* and a cleanOldMessages that returned without error leaves at most keepLast
\* of the documents its query matches, as one complete run does
BatchesRunAgain ==
    /\ [][/\ container' \subseteq container
          /\ \A d \in container \ container' :
                \E c \in InFlight :
                   /\ c.op = "deleteConversation"
                   /\ d \in DeleteMatches(c.conversationId, c.userId)
          /\ \A c \in InFlight :
                (c.pc = "delete" /\ calls' = Finished(c)) =>
                   /\ ret'.op = "deleteConversation"
                   /\ ret'.count = c.deletedCount + Cardinality(container \ container')
                   /\ ret'.flag = (ret'.count > 0)
          /\ \A c \in InFlight, d \in StartedCalls :
                (c.pc = "delete" /\ calls' = Continued(c, d)) =>
                   /\ d.deletedCount =
                         c.deletedCount + Cardinality(container \ container')
                   /\ d.todo = Tail(c.todo)]_vars
    /\ []((ret.op = "deleteConversation" /\ ret.error = "none") =>
             DeleteMatches(ret.conversationId, ret.userId) = {})
    /\ []((ret.op = "cleanOldMessages" /\ ret.error = "none") =>
             Cardinality(CleanMatches(ret.conversationId, ret.userId)) <= ret.arg)

\* a second deleteConversation has returned: one of the documents its query
\* gave was gone when it came to delete it, it deleted and counted the other,
\* and the documents of the other conversation are still stored
BatchesRunAgainReached ==
    /\ ret.op = "deleteConversation"
    /\ ret.error = "notfound"
    /\ ret.count = 1
    /\ ops >= 2
    /\ calls = EmptyBag
    /\ DeleteMatches(ret.conversationId, ret.userId) = {}
    /\ container # {}

----------------------------------------------------------------------------
(* Partial statistics *)

\* C23: with the gate open, whichever count queries threw, getStats returns an
\* object with available true; the statistic of a query that threw is 'ERROR',
\* that of a query that resolved is its count over the store, and totalMessages
\* is the sum of the user, bot and system message counts that resolved, a
\* number from 0 to the number of message documents stored
PartialStats ==
    (ret.op = "getStats" /\ ret.error # "gate") =>
       LET object == ret.value[1]
           counted == {l \in {"userMessages", "botMessages", "systemMessages"} :
                          l \notin object.failed}
       IN  /\ Len(ret.value) = 1
           /\ object.available
           /\ \A l \in DOMAIN object.stats :
                 object.stats[l] = IF l \in object.failed THEN StatsError
                                   ELSE StatsCount(l)
           /\ object.totalMessages =
                 Cardinality({d \in container :
                     \/ d.messageType = "user" /\ "userMessages" \in counted
                     \/ d.messageType = "bot" /\ "botMessages" \in counted
                     \/ d.messageType = "system" /\ "systemMessages" \in counted})
           /\ object.totalMessages \in 0..Cardinality(container)

\* the query of the user messages threw, and that of the bot messages, which
\* resolved, counted a message
PartialStatsReached ==
    /\ ret.op = "getStats"
    /\ ret.error = "query"
    /\ ret.value[1].failed = {"userMessages", "conversations"}
    /\ ret.value[1].totalMessages = 1
    /\ ret.value[1].stats["botMessages"] = 1
    /\ \E d \in container : d.messageType = "user"

----------------------------------------------------------------------------
(* The availability gate *)

\* C24: a step never opens a closed gate; with the configuration missing the
\* gate is closed from the construction on; and while the gate is closed,
\* whether by missing configuration, by a throw during construction or by a
\* failed probe, isAvailable() is false and getConfigInfo() reports the gate
\* closed with an error that is neither null nor empty
GateNeverReopens ==
    /\ [][~cosmosAvailable => ~cosmosAvailable']_vars
    /\ [](probe = "none" => ~cosmosAvailable)
    /\ [](~cosmosAvailable =>
             /\ ~IsAvailable
             /\ ~GetConfigInfo.available
             /\ GetConfigInfo.error \notin {Null, ""})

\* the probe failed after construction had opened the gate, and an operation
\* called later was turned away
GateNeverReopensReached ==
    /\ probe = "failed"
    /\ initialized
    /\ ~cosmosAvailable
    /\ ret.error = "gate"
    /\ container # {}

\* C25: while the probe is pending the construction has left the gate open
\* and no operation has been turned away at the gate; once the probe has
\* failed no step adds a call waiting for the store, and an operation that
\* returns as it is called returns its degraded value for the closed gate,
\* null, [], false or 0, or the unavailable statistics, the store untouched
ProbeDoesNotBlock ==
    /\ [](probe = "pending" =>
             /\ cosmosAvailable
             /\ initialized
             /\ ret.error # "gate")
    /\ [][probe = "failed" =>
             /\ BagCardinality(calls') <= BagCardinality(calls)
             /\ (calls' = calls /\ ret'.op # "none") =>
                   /\ ret'.error = "gate"
                   /\ ~ret'.flag
                   /\ ret'.count = 0
                   /\ IF ret'.op = "getStats"
                      THEN ~ret'.value[1].available
                      ELSE ret'.value = <<>>
                   /\ container' = container]_vars

\* a message appended while the probe was pending is stored; the probe has
\* failed, and a saveMessage called after that has returned null at the gate
ProbeDoesNotBlockReached ==
    /\ probe = "failed"
    /\ PairMessages("c1", "u1") # {}
    /\ ret.op = "saveMessage"
    /\ ret.error = "gate"
    /\ ret.value = <<>>

----------------------------------------------------------------------------
(* The documents of another pair *)

\* C26: a step of an operation called for a conversation leaves every document
\* of another conversation stored as it was, and getConversationInfo returns
\* only a document of the pair it was called for
OtherPairsUntouched ==
    /\ [][\A d \in container : d.conversationId # "c1" => d \in container']_vars
    /\ [](ret.op = "getConversationInfo" =>
             \A i \in DOMAIN ret.value :
                /\ ret.value[i].conversationId = ret.conversationId
                /\ ret.value[i].userId = ret.userId)

====
